---- MODULE Spec2Model ----
(***************************************************************************)
(* Model of streamlit_app.py: the wine-quality dashboard.                  *)
(*                                                                         *)
(* A pandas DataFrame is a record [columns, dtypes, rows]: the column      *)
(* labels in order, the dtype of each column and the rows in order, a row  *)
(* being a function from column label to cell.  A cell is <<>> (NaN) or    *)
(* <<v>>, v the number in tenths (9.4 is <<94>>, the integer 5 is <<50>>). *)
(* Every interaction reruns main() top to bottom; one action is one rerun. *)
(***************************************************************************)
EXTENDS Integers, Sequences, FiniteSets, TLC

VARIABLES
    remote,             \* the frame the CSV behind the URL of load_data parses to
    cache,              \* st.cache_data entry of load_data: <<>> or <<frame>>
    fetches,            \* number of times pd.read_csv fetched the URL
    session_state,      \* per session: the 'df_cleaned' slot, <<>> or <<frame>>
    option,             \* per session: the navigation radio
    quality_filter,     \* per session: the quality slider, <<lo, hi>>
    alcohol_filter,     \* per session: the alcohol slider, <<lo, hi>>
    selected_features,  \* per session: the boxplot multiselect
    pairplot_features,  \* per session: the pairplot multiselect
    df,                 \* per session: the frame load_data() returned to the last rerun
    df_filtered,        \* per session: df_filtered of the last rerun
    csv,                \* per session: the bytes given to the download button
    df_cleaned,         \* per session: df_cleaned read by the views in the last rerun
    page,               \* per session: what the last rerun rendered and raised
    fetched_from        \* per session: what the URL served when the last rerun ran

vars == <<remote, cache, fetches, session_state, option, quality_filter,
          alcohol_filter, selected_features, pairplot_features, df,
          df_filtered, csv, df_cleaned, page, fetched_from>>

----------------------------------------------------------------------------
(* Bounds and the data the model draws the remote CSV from.                *)

MaxRows == 2

Sessions == {"s1", "s2"}

Columns == <<"fixed acidity", "volatile acidity", "citric acid", "alcohol", "quality", "Id">>

NaN == <<>>

Range(s) == {s[i] : i \in 1..Len(s)}

Wine(fa, al, q, id) ==
    [c \in Range(Columns) |->
        CASE c = "fixed acidity"    -> fa
          [] c = "volatile acidity" -> <<7>>
          [] c = "citric acid"      -> <<4>>
          [] c = "alcohol"          -> al
          [] c = "quality"          -> q
          [] c = "Id"               -> id]

\* A clean sample, the same sample under another Id, samples on the two
\* acidity bounds, a sample with a missing acidity and one with no rating.
CleanWine       == Wine(<<74>>,  <<94>>,  <<50>>, <<0>>)
SameWineAgain   == Wine(<<74>>,  <<94>>,  <<50>>, <<10>>)
UpperBoundWine  == Wine(<<150>>, <<120>>, <<60>>, <<20>>)
LowerBoundWine  == Wine(<<0>>,   <<98>>,  <<60>>, <<30>>)
IncompleteWine  == Wine(NaN,     <<120>>, <<60>>, <<40>>)
UnratedWine     == Wine(<<112>>, <<98>>,  NaN,    <<50>>)

Samples ==
    {CleanWine, SameWineAgain, UpperBoundWine, LowerBoundWine, IncompleteWine, UnratedWine}

SeqsUpTo(S, n) == UNION {[1..k -> S] : k \in 1..n}

----------------------------------------------------------------------------
(* pandas operations used by main().                                       *)

IsNull(cell) == cell = NaN

Column(frame, c) == [i \in 1..Len(frame.rows) |-> frame.rows[i][c]]

\* read_csv type inference: a column with a missing cell or a decimal point
\* is float64, a column of whole numbers is int64.
InferDtype(cells) ==
    IF cells = <<>> THEN "object"
    ELSE IF \A i \in 1..Len(cells) : ~IsNull(cells[i]) /\ cells[i][1] % 10 = 0
         THEN "int64" ELSE "float64"

Frame(columns, rows) ==
    [columns |-> columns,
     dtypes  |-> [c \in Range(columns) |->
                    InferDtype([i \in 1..Len(rows) |-> rows[i][c]])],
     rows    |-> rows]

NonNull(cells) == {cells[i][1] : i \in {j \in 1..Len(cells) : ~IsNull(cells[j])}}

\* Series.min() / Series.max(): NaN is skipped.
SeriesMin(cells) == CHOOSE v \in NonNull(cells) : \A w \in NonNull(cells) : v <= w
SeriesMax(cells) == CHOOSE v \in NonNull(cells) : \A w \in NonNull(cells) : v >= w

\* int(x): truncation of a non-negative number to a whole number.
ToInt(v) == (v \div 10) * 10

\* Comparisons of a cell with a number: False on NaN.
Ge(cell, v) == ~IsNull(cell) /\ cell[1] >= v
Le(cell, v) == ~IsNull(cell) /\ cell[1] <= v
Gt(cell, v) == ~IsNull(cell) /\ cell[1] > v
Lt(cell, v) == ~IsNull(cell) /\ cell[1] < v

\* frame[mask]: the rows whose index is in keep, in order.
RECURSIVE TakeRows(_, _, _)
TakeRows(rows, keep, i) ==
    IF i > Len(rows) THEN <<>>
    ELSE (IF i \in keep THEN <<rows[i]>> ELSE <<>>) \o TakeRows(rows, keep, i + 1)

Mask(frame, keep) == [frame EXCEPT !.rows = TakeRows(frame.rows, keep, 1)]

dropna(frame) ==
    Mask(frame, {i \in 1..Len(frame.rows) :
                    \A c \in Range(frame.columns) : ~IsNull(frame.rows[i][c])})

drop_duplicates(frame) ==
    Mask(frame, {i \in 1..Len(frame.rows) :
                    \A j \in 1..(i - 1) : frame.rows[j] # frame.rows[i]})

astype_int(frame, c) ==
    [frame EXCEPT !.dtypes[c] = "int64",
                  !.rows = [i \in 1..Len(frame.rows) |->
                              [frame.rows[i] EXCEPT ![c] = <<ToInt(@[1])>>]]]

RECURSIVE Without(_, _)
Without(columns, c) ==
    IF columns = <<>> THEN <<>>
    ELSE (IF Head(columns) = c THEN <<>> ELSE <<Head(columns)>>) \o Without(Tail(columns), c)

\* frame[columns]: the projection on a list of column labels.
Project(frame, columns) ==
    [columns |-> columns,
     dtypes  |-> [c \in Range(columns) |-> frame.dtypes[c]],
     rows    |-> [i \in 1..Len(frame.rows) |->
                    [c \in Range(columns) |-> frame.rows[i][c]]]]

drop_column(frame, c) == Project(frame, Without(frame.columns, c))

\* DataFrame.head(): the first five rows.
HeadRows == 5

head(frame) ==
    [frame EXCEPT !.rows = SubSeq(@, 1, IF Len(@) < HeadRows THEN Len(@) ELSE HeadRows)]

NoFrame == [columns |-> <<>>, dtypes |-> [c \in {} |-> "object"], rows |-> <<>>]

\* isnull().sum(): one row holding the number of missing cells of each column.
isnull_sum(frame) ==
    [columns |-> frame.columns,
     dtypes  |-> [c \in Range(frame.columns) |-> "int64"],
     rows    |-> << [c \in Range(frame.columns) |->
                      <<10 * Cardinality({i \in 1..Len(frame.rows) :
                                             IsNull(frame.rows[i][c])})>>] >>]

----------------------------------------------------------------------------
(* The filter of lines 233-236 and the cleaning of lines 252-256.          *)

\* The bounds of fixed acidity, 0 and 15, in tenths.
AcidityLow == 0
AcidityHigh == 150

\* The filter with the upper alcohol bound exclusive.
ApplyFiltersExclusive(frame, qf, af) ==
    Mask(frame, {i \in 1..Len(frame.rows) :
                    /\ Ge(frame.rows[i]["quality"], qf[1])
                    /\ Le(frame.rows[i]["quality"], qf[2])
                    /\ Ge(frame.rows[i]["alcohol"], af[1])
                    /\ Lt(frame.rows[i]["alcohol"], af[2])})

ApplyFilters(frame, qf, af) ==
    Mask(frame, {i \in 1..Len(frame.rows) :
                    /\ Ge(frame.rows[i]["quality"], qf[1])
                    /\ Le(frame.rows[i]["quality"], qf[2])
                    /\ Ge(frame.rows[i]["alcohol"], af[1])
                    /\ Le(frame.rows[i]["alcohol"], af[2])})

\* The acidity test with the upper bound inclusive.
AcidityUpToBound(cell) == Gt(cell, AcidityLow) /\ Le(cell, AcidityHigh)

AcidityInBounds(cell) == Gt(cell, AcidityLow) /\ Lt(cell, AcidityHigh)

\* The cleaning without line 256.
KeepId(frame) == frame

DropId(frame) == drop_column(frame, "Id")

\* The result of a computation that may raise: the exception's name or "",
\* and the frame computed when nothing was raised.
Raise(name) == [error |-> name, frame |-> NoFrame]
Return(frame) == [error |-> "", frame |-> frame]

\* Lines 252-256.  frame['Id'] on a frame without that column raises KeyError.
Cleaning(frame) ==
    LET deduplicated == drop_duplicates(dropna(frame))
    IN  IF "Id" \notin Range(deduplicated.columns) THEN Raise("KeyError")
        ELSE LET typed   == astype_int(deduplicated, "Id")
                 bounded == Mask(typed, {i \in 1..Len(typed.rows) :
                                AcidityInBounds(typed.rows[i]["fixed acidity"])})
             IN  Return(DropId(bounded))

----------------------------------------------------------------------------
(* to_csv(index=False) and read_csv.  A text is a sequence of symbols: the *)
(* digits, ".", "," and "\n", and one symbol for each column label.        *)

DigitChar(d) == <<"0", "1", "2", "3", "4", "5", "6", "7", "8", "9">>[d + 1]

RECURSIVE Digits(_)
Digits(n) == IF n < 10 THEN <<DigitChar(n)>> ELSE Digits(n \div 10) \o <<DigitChar(n % 10)>>

\* A missing cell is written as the empty string, an int64 cell without a
\* decimal point, a float64 cell with its shortest decimal form.
FormatCell(cell, dtype) ==
    IF IsNull(cell) THEN <<>>
    ELSE IF dtype = "int64" THEN Digits(cell[1] \div 10)
    ELSE Digits(cell[1] \div 10) \o <<".">> \o Digits(cell[1] % 10)

RECURSIVE Join(_, _)
Join(fields, sep) ==
    IF fields = <<>> THEN <<>>
    ELSE IF Len(fields) = 1 THEN fields[1]
    ELSE fields[1] \o <<sep>> \o Join(Tail(fields), sep)

RECURSIVE WriteRows(_, _)
WriteRows(frame, i) ==
    IF i > Len(frame.rows) THEN <<>>
    ELSE Join([k \in 1..Len(frame.columns) |->
                 FormatCell(frame.rows[i][frame.columns[k]],
                            frame.dtypes[frame.columns[k]])], ",")
         \o <<"\n">> \o WriteRows(frame, i + 1)

to_csv(frame) ==
    Join([k \in 1..Len(frame.columns) |-> <<frame.columns[k]>>], ",")
    \o <<"\n">> \o WriteRows(frame, 1)

RECURSIVE Split(_, _)
Split(text, sep) ==
    IF \A i \in 1..Len(text) : text[i] # sep THEN <<text>>
    ELSE LET k == CHOOSE i \in 1..Len(text) :
                    text[i] = sep /\ \A j \in 1..(i - 1) : text[j] # sep
         IN  <<SubSeq(text, 1, k - 1)>> \o Split(SubSeq(text, k + 1, Len(text)), sep)

\* The lines of a text: the piece after the last newline is not a line.
Lines(text) == LET pieces == Split(text, "\n") IN SubSeq(pieces, 1, Len(pieces) - 1)

DigitValue(ch) == CHOOSE d \in 0..9 : DigitChar(d) = ch

RECURSIVE ParseDigits(_)
ParseDigits(token) ==
    IF token = <<>> THEN 0
    ELSE 10 * ParseDigits(SubSeq(token, 1, Len(token) - 1)) + DigitValue(token[Len(token)])

\* The number a field denotes, in tenths; the empty field is NaN.
ParseCell(token) ==
    IF token = <<>> THEN NaN
    ELSE LET parts == Split(token, ".")
         IN  IF Len(parts) = 1 THEN <<10 * ParseDigits(parts[1])>>
             ELSE <<10 * ParseDigits(parts[1]) + ParseDigits(parts[2])>>

ParsedDtype(tokens) ==
    IF tokens = <<>> THEN "object"
    ELSE IF \A i \in 1..Len(tokens) :
                tokens[i] # <<>> /\ \A j \in 1..Len(tokens[i]) : tokens[i][j] # "."
         THEN "int64" ELSE "float64"

read_csv(text) ==
    LET lines   == Lines(text)
        labels  == Split(lines[1], ",")
        columns == [k \in 1..Len(labels) |-> labels[k][1]]
        Index(c) == CHOOSE k \in 1..Len(columns) : columns[k] = c
        fields  == [i \in 1..(Len(lines) - 1) |-> Split(lines[i + 1], ",")]
    IN  [columns |-> columns,
         dtypes  |-> [c \in Range(columns) |->
                        ParsedDtype([i \in 1..Len(fields) |-> fields[i][Index(c)]])],
         rows    |-> [i \in 1..Len(fields) |->
                        [c \in Range(columns) |-> ParseCell(fields[i][Index(c)])]]]

----------------------------------------------------------------------------
(* The widgets of main() and of data_visualization().                      *)

Options == {"Introduction", "Data Cleaning & Describing", "Data Visualization", "Conclusion"}

DefaultBoxplot == <<"fixed acidity", "volatile acidity", "quality">>
DefaultPairplot == <<"fixed acidity", "volatile acidity", "citric acid", "alcohol", "quality">>

\* The selections of the two multiselects the model tries.
BoxplotChoices == {<<>>, DefaultBoxplot}
PairplotChoices == {<<>>, <<"alcohol">>, DefaultPairplot}

\* Lines 215 and 224: the extent of each slider.
QualityExtent(frame) ==
    <<ToInt(SeriesMin(Column(frame, "quality"))), ToInt(SeriesMax(Column(frame, "quality")))>>
AlcoholExtent(frame) ==
    <<SeriesMin(Column(frame, "alcohol")), SeriesMax(Column(frame, "alcohol"))>>

\* A slider that starts collapsed on its upper end.
DefaultAtMax(extent) == <<extent[2], extent[2]>>

\* value=(min, max): the position of a slider the user has not moved.
DefaultRange(extent) == extent

\* The positions of the quality slider: the whole numbers of its extent.
QualityStops(frame) ==
    {v \in QualityExtent(frame)[1]..QualityExtent(frame)[2] : v % 10 = 0}

\* The positions of the alcohol slider the model tries: the alcohol contents
\* in the data, its two ends among them.
AlcoholStops(frame) == NonNull(Column(frame, "alcohol"))

Ranges(stops) == {<<lo, hi>> \in stops \X stops : lo <= hi}

----------------------------------------------------------------------------
(* The views.  A rendered element is its kind and the frame it shows.      *)

Element(kind, frame) == [kind |-> kind, data |-> frame]

Rendered(elements) == [elements |-> elements, error |-> ""]
Aborted(elements, name) == [elements |-> elements, error |-> name]

introduction == Rendered(<<Element("markdown: introduction", NoFrame)>>)

conclusion == Rendered(<<Element("markdown: conclusion", NoFrame)>>)

data_cleaning_and_describing(frame, cleaned) ==
    Rendered(<<Element("dataframe: raw head", head(frame)),
               Element("write: missing values", isnull_sum(frame)),
               Element("dataframe: cleaned head", head(cleaned)),
               Element("dataframe: describe", cleaned)>>)

\* The boxplot tab without the test of line 112.
BoxplotAlways(cleaned, features) ==
    <<Element("pyplot: boxplot", Project(cleaned, features))>>

\* Lines 112-123: the boxplot tab.
BoxplotTab(cleaned, features) ==
    IF features # <<>> THEN <<Element("pyplot: boxplot", Project(cleaned, features))>>
    ELSE <<>>

\* Lines 153-163: the pairplot tab.  hue='quality' is looked up in the frame
\* projected on the chosen features and raises KeyError when it is not there.
PairplotTab(cleaned, features) ==
    IF features # <<>>
    THEN IF "quality" \in Range(features)
         THEN Rendered(<<Element("pyplot: pairplot", Project(cleaned, features))>>)
         ELSE Aborted(<<>>, "KeyError")
    ELSE Rendered(<<>>)

data_visualization(cleaned, box, pair) ==
    LET tab4 == PairplotTab(cleaned, pair)
    IN  [elements |-> <<Element("pyplot: heatmap", cleaned)>>
                      \o BoxplotTab(cleaned, box)
                      \o <<Element("pyplot: histplot", Project(cleaned, <<"quality">>))>>
                      \o tab4.elements,
         error    |-> tab4.error]

\* Lines 262-269.
View(opt, frame, cleaned, box, pair) ==
    CASE opt = "Introduction"               -> introduction
      [] opt = "Data Cleaning & Describing" -> data_cleaning_and_describing(frame, cleaned)
      [] opt = "Data Visualization"         -> data_visualization(cleaned, box, pair)
      [] opt = "Conclusion"                 -> conclusion

----------------------------------------------------------------------------
(* main(): one rerun of the script for a session.                          *)

\* load_data without st.cache_data: every rerun fetches.
load_data_uncached ==
    [value |-> remote, cache |-> <<remote>>, fetches |-> fetches + 1]

\* Lines 198-202: st.cache_data runs read_csv on a miss and keeps its result.
load_data ==
    IF cache = <<>>
    THEN [value |-> remote, cache |-> <<remote>>, fetches |-> fetches + 1]
    ELSE [value |-> cache[1], cache |-> cache, fetches |-> fetches]

\* The cleaning without the guard of line 250.
CleanEveryRerun(slot) == TRUE

\* Line 250: 'df_cleaned' not in st.session_state.
NeedsCleaning(slot) == slot = <<>>

\* The download button fed with the cleaned frame.
ExportCleaned(filtered, cleaned) == cleaned

\* Line 241: the frame written to the download button.
Exported(filtered, cleaned) == filtered

Started(s) == df[s] # NoFrame

\* The exception that ends the rerun before the views, or "".
CleaningError(slot, filtered) ==
    IF NeedsCleaning(slot) THEN Cleaning(filtered).error ELSE ""

Main(s, opt, qf, af, box, pair) ==
    /\ cache' = load_data.cache
    /\ fetches' = load_data.fetches
    /\ fetched_from' = [fetched_from EXCEPT ![s] = remote]
    /\ df' = [df EXCEPT ![s] = cache'[1]]
    /\ option' = [option EXCEPT ![s] = opt]
    /\ quality_filter' = [quality_filter EXCEPT ![s] = qf]
    /\ alcohol_filter' = [alcohol_filter EXCEPT ![s] = af]
    /\ df_filtered' = [df_filtered EXCEPT ![s] = ApplyFilters(df'[s], qf, af)]
    /\ session_state' = [session_state EXCEPT ![s] =
            IF NeedsCleaning(@) /\ CleaningError(@, df_filtered'[s]) = ""
            THEN <<Cleaning(df_filtered'[s]).frame>> ELSE @]
    /\ df_cleaned' = [df_cleaned EXCEPT ![s] =
            IF session_state'[s] = <<>> THEN NoFrame ELSE session_state'[s][1]]
    /\ csv' = [csv EXCEPT ![s] = to_csv(Exported(df_filtered'[s], df_cleaned'[s]))]
    /\ page' = [page EXCEPT ![s] =
            IF session_state'[s] = <<>>
            THEN Aborted(<<>>, CleaningError(session_state[s], df_filtered'[s]))
            ELSE View(opt, df'[s], df_cleaned'[s], box, pair)]
    \* a multiselect that is not rendered in a rerun loses its state
    /\ selected_features' = [selected_features EXCEPT ![s] =
            IF opt = "Data Visualization" THEN box ELSE DefaultBoxplot]
    /\ pairplot_features' = [pairplot_features EXCEPT ![s] =
            IF opt = "Data Visualization" THEN pair ELSE DefaultPairplot]
    /\ UNCHANGED remote

\* The first rerun of a session: every widget has its default value.
Open(s) ==
    /\ ~Started(s)
    /\ Main(s, "Introduction",
            DefaultRange(QualityExtent(load_data.value)),
            DefaultRange(AlcoholExtent(load_data.value)),
            DefaultBoxplot, DefaultPairplot)

Navigate(s, opt) ==
    /\ Started(s)
    /\ opt # option[s]
    /\ Main(s, opt, quality_filter[s], alcohol_filter[s], DefaultBoxplot, DefaultPairplot)

SetQuality(s, range) ==
    /\ Started(s)
    /\ range # quality_filter[s]
    /\ Main(s, option[s], range, alcohol_filter[s],
            selected_features[s], pairplot_features[s])

SetAlcohol(s, range) ==
    /\ Started(s)
    /\ range # alcohol_filter[s]
    /\ Main(s, option[s], quality_filter[s], range,
            selected_features[s], pairplot_features[s])

SelectBoxplot(s, features) ==
    /\ Started(s)
    /\ option[s] = "Data Visualization"
    /\ features # selected_features[s]
    /\ Main(s, option[s], quality_filter[s], alcohol_filter[s],
            features, pairplot_features[s])

SelectPairplot(s, features) ==
    /\ Started(s)
    /\ option[s] = "Data Visualization"
    /\ features # pairplot_features[s]
    /\ Main(s, option[s], quality_filter[s], alcohol_filter[s],
            selected_features[s], features)

\* A click on the download button reruns the script with the widgets as they are.
Download(s) ==
    /\ Started(s)
    /\ Main(s, option[s], quality_filter[s], alcohol_filter[s],
            selected_features[s], pairplot_features[s])

\* The file behind the URL is republished with its rows in the opposite order.
Reversed(rows) == [i \in 1..Len(rows) |-> rows[Len(rows) + 1 - i]]

RemoteUpdate ==
    /\ remote' = [remote EXCEPT !.rows = Reversed(@)]
    /\ remote' # remote
    /\ UNCHANGED <<cache, fetches, session_state, option, quality_filter,
                   alcohol_filter, selected_features, pairplot_features, df,
                   df_filtered, csv, df_cleaned, page, fetched_from>>

\* The frames the URL may serve: at least one rating and one alcohol content
\* are present, as int() and float() of the extents need.
RemoteFrames ==
    {Frame(Columns, rows) : rows \in
        {r \in SeqsUpTo(Samples, MaxRows) :
            /\ \E i \in 1..Len(r) : ~IsNull(r[i]["quality"])
            /\ \E i \in 1..Len(r) : ~IsNull(r[i]["alcohol"])}}

\* The process before its first rerun: nothing cached, no session open.
Fresh ==
    /\ cache = <<>>
    /\ fetches = 0
    /\ session_state = [s \in Sessions |-> <<>>]
    /\ option = [s \in Sessions |-> "Introduction"]
    /\ quality_filter = [s \in Sessions |-> <<>>]
    /\ alcohol_filter = [s \in Sessions |-> <<>>]
    /\ selected_features = [s \in Sessions |-> DefaultBoxplot]
    /\ pairplot_features = [s \in Sessions |-> DefaultPairplot]
    /\ df = [s \in Sessions |-> NoFrame]
    /\ df_filtered = [s \in Sessions |-> NoFrame]
    /\ csv = [s \in Sessions |-> <<>>]
    /\ df_cleaned = [s \in Sessions |-> NoFrame]
    /\ page = [s \in Sessions |-> Rendered(<<>>)]
    /\ fetched_from = [s \in Sessions |-> NoFrame]

Init == remote \in RemoteFrames /\ Fresh

\* The interactions of one browser session that change a widget.
Interact(s) ==
    \/ Open(s)
    \/ \E opt \in Options : Navigate(s, opt)
    \/ Started(s) /\ \E range \in Ranges(QualityStops(df[s])) : SetQuality(s, range)
    \/ Started(s) /\ \E range \in Ranges(AlcoholStops(df[s])) : SetAlcohol(s, range)
    \/ \E features \in BoxplotChoices : SelectBoxplot(s, features)
    \/ \E features \in PairplotChoices : SelectPairplot(s, features)

\* One session, and a URL whose content changes under it.
Next ==
    \/ Interact("s1")
    \/ Download("s1")
    \/ RemoteUpdate

Spec == Init /\ [][Next]_vars

\* Two sessions of the same process over three files.
SharedFrames ==
    {Frame(Columns, <<CleanWine, UpperBoundWine>>),
     Frame(Columns, <<UnratedWine, CleanWine>>),
     Frame(Columns, <<SameWineAgain, CleanWine>>)}

InitShared == remote \in SharedFrames /\ Fresh

NextShared == \E s \in Sessions : Interact(s)

SpecShared == InitShared /\ [][NextShared]_vars

----------------------------------------------------------------------------
(* Properties.                                                             *)

\* The rows of a frame that lie in the ranges qf and af, both ends included.
InRanges(row, qf, af) ==
    /\ ~IsNull(row["quality"]) /\ qf[1] <= row["quality"][1] /\ row["quality"][1] <= qf[2]
    /\ ~IsNull(row["alcohol"]) /\ af[1] <= row["alcohol"][1] /\ row["alcohol"][1] <= af[2]

RowsInRanges(frame, qf, af) ==
    LET Inside(row) == InRanges(row, qf, af) IN SelectSeq(frame.rows, Inside)

Stored(s) == session_state[s] # <<>>

Kinds(s) == {page[s].elements[i].kind : i \in 1..Len(page[s].elements)}

\* C1: after every rerun, df_filtered holds exactly the rows of the raw frame
\* whose quality and alcohol lie in the two slider ranges, ends included, in
\* the raw order and with the raw columns: every row kept is in both ranges
\* and no row left out is.
FilterIsExact ==
    \A s \in Sessions : Started(s) =>
        /\ df_filtered[s].columns = df[s].columns
        /\ \A i \in 1..Len(df_filtered[s].rows) :
              InRanges(df_filtered[s].rows[i], quality_filter[s], alcohol_filter[s])
        /\ df_filtered[s].rows = RowsInRanges(df[s], quality_filter[s], alcohol_filter[s])

\* A narrowed slider keeps some rows and leaves out a row that has both values.
FilterIsExactWitness ==
    \E s \in Sessions :
        /\ Started(s)
        /\ alcohol_filter[s] # AlcoholExtent(df[s])
        /\ df_filtered[s].rows # <<>>
        /\ \E i \in 1..Len(df[s].rows) :
              /\ ~IsNull(df[s].rows[i]["quality"])
              /\ ~InRanges(df[s].rows[i], quality_filter[s], alcohol_filter[s])

\* C2: once a session holds a cleaned frame, no step changes it, and every
\* later rerun hands that same frame to the views.
CleanedIsKept ==
    [][\A s \in Sessions : Stored(s) =>
          /\ session_state'[s] = session_state[s]
          /\ df_cleaned'[s] = session_state[s][1]]_vars

\* A rerun whose filters would clean to another frame than the one stored.
CleanedIsKeptWitness ==
    \E s \in Sessions :
        /\ Stored(s)
        /\ quality_filter[s] # QualityExtent(df[s])
        /\ Cleaning(df_filtered[s]).frame # session_state[s][1]

\* C3: after every rerun the cleaned frame the views read is a subset of the
\* current df_filtered without its Id: each of its rows is a row of
\* df_filtered and lies in the current slider ranges.
CleanedWithinFiltered ==
    \A s \in Sessions : Started(s) =>
        \A i \in 1..Len(df_cleaned[s].rows) :
            /\ InRanges(df_cleaned[s].rows[i], quality_filter[s], alcohol_filter[s])
            /\ \E j \in 1..Len(df_filtered[s].rows) :
                  DropId(df_filtered[s]).rows[j] = df_cleaned[s].rows[i]

\* C4: the cleaned frame is a fixed point of the cleaning: it has no row with
\* a missing field, no two equal rows and no fixed acidity outside (0, 15), so
\* that dropping missing rows, duplicates and out-of-bounds rows again
\* returns it unchanged.
CleaningIsIdempotent ==
    \A s \in Sessions : Stored(s) =>
        LET out == session_state[s][1] IN
        /\ dropna(out) = out
        /\ drop_duplicates(out) = out
        /\ \A i \in 1..Len(out.rows) : AcidityInBounds(out.rows[i]["fixed acidity"])

\* C5: a stored cleaned frame has no Id column: its columns are the columns
\* of the raw frame without Id, in the raw order, and so are the fields of
\* each of its rows.
CleanedHasNoId ==
    \A s \in Sessions : Stored(s) =>
        LET out == session_state[s][1] IN
        /\ "Id" \notin Range(out.columns)
        /\ out.columns = Without(df[s].columns, "Id")
        /\ \A i \in 1..Len(out.rows) : DOMAIN out.rows[i] = Range(df[s].columns) \ {"Id"}

\* A frame with an Id column was cleaned and rows of it were kept.
CleanedHasNoIdWitness ==
    \E s \in Sessions :
        /\ Stored(s)
        /\ "Id" \in Range(df[s].columns)
        /\ session_state[s][1].rows # <<>>

\* C6: every row of a stored cleaned frame has a fixed acidity strictly
\* between 0 and 15.
AcidityStrictlyInside ==
    \A s \in Sessions : Stored(s) =>
        \A i \in 1..Len(session_state[s][1].rows) :
            LET cell == session_state[s][1].rows[i]["fixed acidity"] IN
            /\ ~IsNull(cell)
            /\ AcidityLow < cell[1]
            /\ cell[1] < AcidityHigh

\* Rows on both bounds were in the raw frame, a row was kept, and the sliders
\* have been moved since.
AcidityStrictlyInsideWitness ==
    \E s \in Sessions :
        /\ Stored(s)
        /\ session_state[s][1].rows # <<>>
        /\ \E i \in 1..Len(df[s].rows) : df[s].rows[i]["fixed acidity"] = <<AcidityHigh>>
        /\ quality_filter[s] # QualityExtent(df[s])

\* C7: at every rerun, parsing the bytes given to the download button yields
\* the raw columns, Id included, and exactly the raw rows that lie in the
\* slider ranges of that rerun, in order and with their values.
DownloadRoundTrips ==
    \A s \in Sessions : Started(s) =>
        /\ read_csv(csv[s]).columns = df[s].columns
        /\ read_csv(csv[s]).rows = RowsInRanges(df[s], quality_filter[s], alcohol_filter[s])

\* The sliders were moved after the cleaned frame was stored: the download
\* holds a row with a missing cell that the stored frame lacks.
DownloadRoundTripsWitness ==
    \E s \in Sessions :
        /\ Stored(s)
        /\ quality_filter[s] # QualityExtent(df[s])
        /\ \E i \in 1..Len(df_filtered[s].rows) :
              IsNull(df_filtered[s].rows[i]["fixed acidity"])
        /\ session_state[s][1].rows # <<>>
        /\ Len(df_filtered[s].rows) < Len(df[s].rows)

LoadedOnce ==
    [][/\ fetches' <= 1
       /\ cache # <<>> => cache' = cache
       /\ \A s \in Sessions : Started(s)' => df'[s] = cache'[1]
       /\ \A s \in Sessions : Started(s) => df'[s] = df[s]]_vars

\* A rerun ran while the URL served another file than the cached one.
LoadedOnceWitness ==
    \E s \in Sessions :
        /\ Started(s)
        /\ fetches = 1
        /\ fetched_from[s] # df[s]

\* C10: the cleaned frame of every session is the cleaning of the whole raw
\* frame; two sessions hold the same cleaned frame whatever their sliders,
\* and show the same page when their navigation and chart selections agree:
\* the page is a function of the raw frame and these widgets alone.
FiltersReachOnlyTheDownload ==
    \A s \in Sessions : Started(s) =>
        /\ Stored(s)
        /\ session_state[s][1] = Cleaning(cache[1]).frame
        /\ df_cleaned[s] = session_state[s][1]
        /\ page[s] = View(option[s], cache[1], Cleaning(cache[1]).frame,
                          selected_features[s], pairplot_features[s])
        /\ \A t \in Sessions : Started(t) =>
              /\ session_state[t] = session_state[s]
              /\ ( /\ option[t] = option[s]
                   /\ selected_features[t] = selected_features[s]
                   /\ pairplot_features[t] = pairplot_features[s] ) => page[t] = page[s]

\* Two sessions on the statistics page with different sliders and different
\* downloads.
FiltersReachOnlyTheDownloadWitness ==
    /\ Started("s1") /\ Started("s2")
    /\ option["s1"] = "Data Cleaning & Describing"
    /\ option["s2"] = "Data Cleaning & Describing"
    /\ quality_filter["s1"] # quality_filter["s2"]
    /\ csv["s1"] # csv["s2"]
    /\ session_state["s1"][1].rows # <<>>

====
